---------------------------- MODULE Spec2Model ----------------------------
(***************************************************************************)
(* A model of src/main.ts: a content-addressed image store on Deno KV.     *)
(*                                                                         *)
(*   uploadHandler  POST /upload: per file, md5 -> dedup lookup -> two     *)
(*                  phase write (meta completed=false, chunks, meta        *)
(*                  completed=true)                                        *)
(*   serveImage     GET /image/{id}: in-memory cache, then reassembly of   *)
(*                  the chunks from KV, cache insertion with a timer       *)
(*   handler        routing of a GET under /image/ to serveImage by the    *)
(*                  last part of the path up to its first dot              *)
(*                                                                         *)
(* Every awaited KV operation is one atomic step; the synchronous code     *)
(* between two awaits belongs to the step of the await that precedes it.   *)
(* Any awaited KV operation may throw (a storage error).                   *)
(*                                                                         *)
(* Units: lengths are counted in blocks of 25 KiB, so KV_CHUNK_SIZE        *)
(* (50 * 1024 bytes in the source) is 2; time is counted in units of 30 s, *)
(* so CACHE_TTL (60 * 1000 ms in the source) is 2.                         *)
(***************************************************************************)
EXTENDS Integers, Sequences, FiniteSets, TLC

\* ------------------------------------------------------------------ bounds
MaxLen == 3          \* longest payload, in blocks
MaxUploads == 3      \* upload requests started in one behaviour
MaxReads == 2        \* read requests started in one behaviour
MaxFailures == 1     \* KV operations that throw in one behaviour
MaxTime == 3         \* the clock stops here
MaxBatch == 3        \* parts in one multipart request (SpecBatch)

\* ------------------------------------------------------- program constants
KV_CHUNK_SIZE == 2
CACHE_TTL == 2

Uploaders == {"u1", "u2"}
Readers == {"r1", "r2"}

\* ------------------------------------------------------------------ inputs
\* Payload n of variant v: every position holds a different byte, so that a
\* truncated, padded or reordered reassembly differs from the payload.
Pay(n, v) == [j \in 1..n |-> 10 * v + j]

Payloads == {Pay(n, v) : n \in 0..MaxLen, v \in {1}}

\* File names are sequences of characters.
NamePng == <<"a", ".", "p">>
NameBare == <<"b">>
Names == {NamePng, NameBare}

\* Names whose trailing dot-segment holds a slash, inside and at its end.
NameSlash == <<"c", ".", "d", "/", "e">>
NameSlashEnd == <<"f", ".", "g", "/">>

TypeOf(name) == IF name = NamePng THEN "image/png" ELSE "application/octet-stream"

FilePart(name, bytes) ==
    [kind |-> "file", name |-> name, type |-> TypeOf(name), bytes |-> bytes]

StringPart == [kind |-> "string", name |-> <<>>, type |-> "", bytes |-> <<>>]

\* ------------------------------------------------------------ pure helpers
\* calculateMd5: the digest of the bytes; distinct payloads have distinct
\* digests (MD5 taken as collision free on the payloads of the model).
calculateMd5(data) == <<"md5", data>>

Min(a, b) == IF a < b THEN a ELSE b

\* ChunkCount rounding down.
ChunkCountFloor(len) == len \div KV_CHUNK_SIZE

\* Math.ceil(byteLength / KV_CHUNK_SIZE)
ChunkCount(len) == (len + KV_CHUNK_SIZE - 1) \div KV_CHUNK_SIZE

\* ChunkOf with the offset of the slice left at 0 for every chunk.
ChunkOfFromStart(bytes, i) == SubSeq(bytes, 1, Min(KV_CHUNK_SIZE, Len(bytes)))

\* imageBytes.slice(start, end) of the upload loop, chunk index i (0-based)
ChunkOf(bytes, i) ==
    LET start == i * KV_CHUNK_SIZE
        end == Min(start + KV_CHUNK_SIZE, Len(bytes))
    IN  SubSeq(bytes, start + 1, end)

\* The ImageMeta record of lines 73-81 and 112-120; uploadedAt (Date.now()) is
\* left out: nothing in the source reads it.
ImageMeta(file, completed) ==
    [name |-> file.name, type |-> file.type, size |-> Len(file.bytes),
     chunks |-> ChunkCount(Len(file.bytes)), md5 |-> calculateMd5(file.bytes),
     completed |-> completed]

\* file.name.split('.'), then pop() when there is more than one part
RECURSIVE LastDot(_, _)
LastDot(name, j) ==
    IF j = 0 THEN 0
    ELSE IF name[j] = "." THEN j
    ELSE LastDot(name, j - 1)

FileExtension(name) ==
    LET d == LastDot(name, Len(name))
    IN  IF d = 0 THEN <<>> ELSE SubSeq(name, d + 1, Len(name))

\* `${origin}/image/${imageId}${fileExtension ? '.' + fileExtension : ''}`
\* as the pair (id, suffix); the origin is the same for every URL.
UrlWithExtension(imageId, name) ==
    [id |-> imageId,
     suffix |-> IF FileExtension(name) # <<>> THEN <<".">> \o FileExtension(name)
                ELSE <<>>]

\* `${origin}/image/${existingImageId}` of the cached branch
UrlPlain(imageId) == [id |-> imageId, suffix |-> <<>>]

\* new URL(request.url).pathname of a GET on a url: the characters of the
\* path, "image" and the id being tokens that hold no dot and no slash.
Pathname(url) == <<"/", "image", "/", ToString(url.id)>> \o url.suffix

RECURSIVE LastSlash(_, _)
LastSlash(path, j) ==
    IF j = 0 THEN 0
    ELSE IF path[j] = "/" THEN j
    ELSE LastSlash(path, j - 1)

RECURSIVE FirstDot(_, _)
FirstDot(part, j) ==
    IF j > Len(part) THEN j
    ELSE IF part[j] = "." THEN j
    ELSE FirstDot(part, j + 1)

\* url.pathname.split("/").pop()
FilenameWithExtension(path) == SubSeq(path, LastSlash(path, Len(path)) + 1, Len(path))

\* filenameWithExtension.split('.')[0]
FilenamePart0(part) == SubSeq(part, 1, FirstDot(part, 1) - 1)


\* An optional value: <<>> is "no value", <<v>> is the value v.
Some(v) == <<v>>
Nothing == <<>>

\* kv.get(key).value on a key space held as a function
Get(store, key) == IF key \in DOMAIN store THEN Some(store[key]) ELSE Nothing

\* kv.set(key, value) / Map.set
Put(store, key, value) == (key :> value) @@ store

\* Map.delete
Remove(store, key) == [x \in DOMAIN store \ {key} |-> store[x]]

\* ------------------------------------------------------------------- state
VARIABLES
    md5_to_id,   \* KV ["md5_to_id", digest] -> image id
    kvMeta,      \* KV ["images", id, "meta"] -> ImageMeta
    kvChunk,     \* KV ["images", id, "chunk", i] -> bytes, keyed by <<id, i>>
    cache,       \* the in-memory Map<string, Uint8Array>
    timers,      \* pending setTimeout callbacks, each [id, due]
    now,         \* the clock
    up,          \* the upload requests, one record per task
    rd,          \* the read requests, one record per task
    nextId,      \* the next id crypto.randomUUID() returns (ids are 1, 2, ...)
    uploads,     \* upload requests started so far
    reads,       \* read requests started so far
    failures,    \* KV operations that have thrown so far
    finished,    \* history: [md5, id] of every file reported uploaded or overwritten
    aborted,     \* history: [md5, id] of every file that threw after its commit
    insertedAt,  \* history: the time of the last cache.set of each id
    lastFinal    \* history: per id, the name and type of the last final write

vars == <<md5_to_id, kvMeta, kvChunk, cache, timers, now, up, rd, nextId,
          uploads, reads, failures, finished, aborted, insertedAt, lastFinal>>

kvVars == <<md5_to_id, kvMeta, kvChunk>>
cacheVars == <<cache, timers, now, insertedAt>>
history == <<finished, aborted, lastFinal>>

\* What the dedup lookup can tell of the store: the md5 mapping and the ids
\* whose metadata says completed.
NoSnapshot == [idx |-> <<>>, done |-> {}, taken |-> FALSE]

Snapshot ==
    [idx |-> md5_to_id, done |-> {id \in DOMAIN kvMeta : kvMeta[id].completed},
     taken |-> TRUE]

IdleUpload ==
    [pc |-> "idle", files |-> <<>>, k |-> 0, results |-> <<>>, status |-> 0,
     existingImageId |-> 0, imageId |-> 0, i |-> 0,
     prior |-> {}, priorAborted |-> {}, seenMeta |-> "none", clobbered |-> FALSE,
     snap |-> NoSnapshot, prevSnap |-> NoSnapshot, without |-> "n/a",
     withoutId |-> 0]

IdleRead ==
    [pc |-> "idle", url |-> Nothing, imageId |-> 0, cachedImage |-> Nothing,
     meta |-> Nothing,
     chunks |-> <<>>, i |-> 0, status |-> 0, body |-> <<>>, ctype |-> "",
     threw |-> FALSE, overlap |-> FALSE, startedCompleted |-> FALSE]

Init ==
    /\ md5_to_id = <<>>
    /\ kvMeta = <<>>
    /\ kvChunk = <<>>
    /\ cache = <<>>
    /\ timers = {}
    /\ now = 0
    /\ up = [u \in Uploaders |-> IdleUpload]
    /\ rd = [r \in Readers |-> IdleRead]
    /\ nextId = 1
    /\ uploads = 0
    /\ reads = 0
    /\ failures = 0
    /\ finished = {}
    /\ aborted = {}
    /\ insertedAt = <<>>
    /\ lastFinal = <<>>


\* ------------------------------------------------------------ uploadHandler
UploadPcs == {"L55", "L60", "L90", "L97", "L101", "L130", "L137", "L141"}

CurrentFile(r) == r.files[r.k]

\* One entry of `results`.  name, url, status are the fields of the response;
\* the others record what the handler observed while it processed the file:
\*   md5           the digest
\*   seenIndex     the value the lookup of line 55 returned (0: no value)
\*   seenMeta      what the lookup of line 60 returned
\*   prior         the ids already reported uploaded or overwritten for this
\*                 digest when the lookup of line 55 ran
\*   priorAborted  the ids of the uploads of this digest that had thrown
\*                 after their commit when the lookup of line 55 ran
\*   damaged       the handler overwrote the metadata of a completed object
\*                 and left it incomplete
\*   without       the status the dedup policy gives on the store as it was
\*                 before the previous part, when that part ended in an error
\*   withoutId     the id that store maps the digest to (0: none)
Result(r, status, url, damaged) ==
    [name |-> IF CurrentFile(r).kind = "string" THEN <<"unknown">>
              ELSE CurrentFile(r).name,
     status |-> status, url |-> url,
     md5 |-> calculateMd5(CurrentFile(r).bytes),
     seenIndex |-> r.existingImageId, seenMeta |-> r.seenMeta,
     prior |-> r.prior, priorAborted |-> r.priorAborted, damaged |-> damaged,
     without |-> r.without, withoutId |-> r.withoutId]

NoUrl == [id |-> 0, suffix |-> <<>>]

\* OverallStatus looking at the last entry alone.
OverallStatusOfLast(results) ==
    IF results[Len(results)].status = "error" THEN 500 ELSE 200

\* results.some(r => r.status === "error") ? 500 : 200
OverallStatus(results) ==
    IF \E j \in 1..Len(results) : results[j].status = "error" THEN 500 ELSE 200

\* The loop of lines 44-154 from the part r.k on, up to the next await: string
\* parts are turned into error entries (lines 45-48), a file part stops at the
\* lookup of line 55, the end of the list builds the response (lines 157-162).
RECURSIVE Continue(_)
Continue(r) ==
    IF r.k > Len(r.files)
    THEN [r EXCEPT !.pc = "idle", !.status = OverallStatus(r.results)]
    ELSE IF CurrentFile(r).kind = "string"
    THEN Continue([r EXCEPT !.results = Append(@, Result(r, "error", NoUrl, FALSE)),
                            !.k = @ + 1, !.prevSnap = NoSnapshot])
    ELSE [r EXCEPT !.pc = "L55"]

\* results.push(...) and the step to the next part
PushResult(r, status, url, damaged) ==
    Continue([r EXCEPT !.results = Append(@, Result(r, status, url, damaged)),
                       !.k = @ + 1,
                       !.existingImageId = 0, !.imageId = 0, !.i = 0,
                       !.prior = {}, !.priorAborted = {}, !.seenMeta = "none",
                       !.clobbered = FALSE, !.without = "n/a", !.withoutId = 0,
                       !.snap = NoSnapshot, !.prevSnap = r.snap])

\* Lines 34-43: the request arrives with its parts.
Begin(u, files) ==
    /\ up[u].pc = "idle"
    /\ uploads < MaxUploads
    /\ uploads' = uploads + 1
    /\ up' = [up EXCEPT ![u] =
            IF Len(files) = 0
            THEN [IdleUpload EXCEPT !.status = 400]
            ELSE Continue([IdleUpload EXCEPT !.files = files, !.k = 1])]
    /\ UNCHANGED <<kvVars, cacheVars, rd, nextId, reads, failures, history>>

\* The dedup policy of lines 57 and 62 on a snapshot of the store.
Policy(snapshot, digest) ==
    IF digest \notin DOMAIN snapshot.idx THEN "uploaded"
    ELSE IF snapshot.idx[digest] \in snapshot.done THEN "cached"
    ELSE "overwritten"

\* Line 55: kv.get(["md5_to_id", md5Hash]); line 57 branches on its value,
\* and the else branch draws the new id at once (line 111).
L55(u) ==
    LET r == up[u]
        digest == calculateMd5(CurrentFile(r).bytes)
        e == Get(md5_to_id, digest)
        batch == Len(r.files) > 1
        prevFailed == r.k > 1 /\ r.results[r.k - 1].status = "error"
        before == IF r.prevSnap.taken THEN r.prevSnap ELSE Snapshot
        seen == [r EXCEPT
                   !.prior = {h.id : h \in {x \in finished : x.md5 = digest}},
                   !.priorAborted = {h.id : h \in {x \in aborted : x.md5 = digest}},
                   !.snap = IF batch THEN Snapshot ELSE NoSnapshot,
                   !.without = IF batch /\ prevFailed
                               THEN Policy(before, digest) ELSE "n/a",
                   !.withoutId = IF batch /\ prevFailed /\ digest \in DOMAIN before.idx
                                 THEN before.idx[digest] ELSE 0]
    IN  /\ r.pc = "L55"
        /\ IF e # Nothing
           THEN /\ up' = [up EXCEPT ![u] = [seen EXCEPT !.pc = "L60",
                                                        !.existingImageId = e[1]]]
                /\ UNCHANGED nextId
           ELSE /\ up' = [up EXCEPT ![u] = [seen EXCEPT !.pc = "L130",
                                                        !.imageId = nextId]]
                /\ nextId' = nextId + 1
        /\ UNCHANGED <<kvVars, cacheVars, rd, uploads, reads, failures, history>>

\* IsCompleted without the test of the completed flag.
IsCompletedAnyRecord(m) == m # Nothing

\* existingMetaEntry.value && existingMetaEntry.value.completed (line 62) and
\* its negation !metaEntry.value || !metaEntry.value.completed (line 185)
IsCompleted(m) == m # Nothing /\ m[1].completed

SeenMeta(m) ==
    IF m = Nothing THEN "absent"
    ELSE IF m[1].completed THEN "completed" ELSE "incomplete"

\* Line 60: kv.get(["images", existingImageId, "meta"]); lines 62-71.
L60(u) ==
    LET r == up[u]
        m == Get(kvMeta, r.existingImageId)
        seen == [r EXCEPT !.seenMeta = SeenMeta(m)]
    IN  /\ r.pc = "L60"
        /\ up' = [up EXCEPT ![u] =
                IF IsCompleted(m)
                THEN PushResult(seen, "cached", UrlPlain(r.existingImageId), FALSE)
                ELSE [seen EXCEPT !.pc = "L90", !.imageId = r.existingImageId]]
        /\ UNCHANGED <<kvVars, cacheVars, rd, nextId, uploads, reads, failures,
                       history>>

\* AfterCommit going to the final write at once, the chunk loop left out.
AfterCommitNoLoop(r, loopPc, finalPc) == [r EXCEPT !.i = 0, !.pc = finalPc]

\* After the commit: the chunk loop, or the final write when there is no chunk.
AfterCommit(r, loopPc, finalPc) ==
    [r EXCEPT !.i = 0,
              !.pc = IF ChunkCount(Len(CurrentFile(r).bytes)) = 0 THEN finalPc
                     ELSE loopPc]

\* Lines 83-90: the atomic operation of the overwrite branch sets the metadata
\* alone, with completed = false, and checks nothing.
L90(u) ==
    LET r == up[u]
    IN  /\ r.pc = "L90"
        /\ kvMeta' = Put(kvMeta, r.imageId, ImageMeta(CurrentFile(r), FALSE))
        /\ up' = [up EXCEPT ![u] =
                [AfterCommit(r, "L97", "L101")
                   EXCEPT !.clobbered = IsCompleted(Get(kvMeta, r.imageId))]]
        /\ UNCHANGED <<md5_to_id, kvChunk, cacheVars, rd, nextId, uploads, reads,
                       failures, history>>

\* Lines 122-130: the atomic operation of the new-image branch sets the
\* metadata, with completed = false, and the md5 mapping, and checks nothing.
L130(u) ==
    LET r == up[u]
    IN  /\ r.pc = "L130"
        /\ kvMeta' = Put(kvMeta, r.imageId, ImageMeta(CurrentFile(r), FALSE))
        /\ md5_to_id' = Put(md5_to_id, calculateMd5(CurrentFile(r).bytes), r.imageId)
        /\ up' = [up EXCEPT ![u] = AfterCommit(r, "L137", "L141")]
        /\ UNCHANGED <<kvChunk, cacheVars, rd, nextId, uploads, reads, failures,
                       history>>

\* One pass of the chunk loop (lines 93-98 and 133-138): kv.set of chunk i.
StoreChunk(u, loopPc, finalPc) ==
    LET r == up[u]
        bytes == CurrentFile(r).bytes
    IN  /\ r.pc = loopPc
        /\ kvChunk' = Put(kvChunk, <<r.imageId, r.i>>, ChunkOf(bytes, r.i))
        /\ up' = [up EXCEPT ![u] =
                [r EXCEPT !.i = @ + 1,
                          !.pc = IF r.i + 1 < ChunkCount(Len(bytes)) THEN loopPc
                                 ELSE finalPc]]
        /\ UNCHANGED <<md5_to_id, kvMeta, cacheVars, rd, nextId, uploads, reads,
                       failures, history>>

L97(u) == StoreChunk(u, "L97", "L101")

L137(u) == StoreChunk(u, "L137", "L141")

\* MarkCompleted setting the flag on the record found in the store, whatever
\* name and type it holds.
MarkCompletedKeepRecord(u, finalPc, status) ==
    LET r == up[u]
    IN  /\ r.pc = finalPc
        /\ kvMeta' = Put(kvMeta, r.imageId, [kvMeta[r.imageId] EXCEPT !.completed = TRUE])
        /\ finished' = finished \cup
                {[md5 |-> calculateMd5(CurrentFile(r).bytes), id |-> r.imageId]}
        /\ lastFinal' = Put(lastFinal, r.imageId,
                            [name |-> CurrentFile(r).name, type |-> CurrentFile(r).type])
        /\ up' = [up EXCEPT ![u] =
                PushResult(r, status,
                           UrlWithExtension(r.imageId, CurrentFile(r).name), FALSE)]
        /\ UNCHANGED <<md5_to_id, kvChunk, cacheVars, rd, nextId, uploads, reads,
                       failures, aborted>>

\* The final write (lines 101 and 141): the metadata with completed = true,
\* then the url and the entry of the response.
MarkCompleted(u, finalPc, status) ==
    LET r == up[u]
    IN  /\ r.pc = finalPc
        /\ kvMeta' = Put(kvMeta, r.imageId, ImageMeta(CurrentFile(r), TRUE))
        /\ finished' = finished \cup
                {[md5 |-> calculateMd5(CurrentFile(r).bytes), id |-> r.imageId]}
        /\ lastFinal' = Put(lastFinal, r.imageId,
                            [name |-> CurrentFile(r).name, type |-> CurrentFile(r).type])
        /\ up' = [up EXCEPT ![u] =
                PushResult(r, status,
                           UrlWithExtension(r.imageId, CurrentFile(r).name), FALSE)]
        /\ UNCHANGED <<md5_to_id, kvChunk, cacheVars, rd, nextId, uploads, reads,
                       failures, aborted>>

L101(u) == MarkCompleted(u, "L101", "overwritten")

L141(u) == MarkCompleted(u, "L141", "uploaded")

\* Lines 150-153: the awaited KV operation throws; nothing is written by it,
\* the file gets an error entry and the loop goes on.
UploadThrows(u) ==
    LET r == up[u]
    IN  /\ r.pc \in UploadPcs
        /\ failures < MaxFailures
        /\ failures' = failures + 1
        /\ up' = [up EXCEPT ![u] =
                PushResult(r, "error", NoUrl,
                           r.clobbered /\ ~IsCompleted(Get(kvMeta, r.imageId)))]
        /\ aborted' = IF r.pc \in {"L97", "L101", "L137", "L141"}
                      THEN aborted \cup {[md5 |-> calculateMd5(CurrentFile(r).bytes),
                                          id |-> r.imageId]}
                      ELSE aborted
        /\ UNCHANGED <<kvVars, cacheVars, rd, nextId, uploads, reads, finished,
                       lastFinal>>


\* --------------------------------------------------------------- serveImage
ReadPcs == {"L176", "L184", "L193"}

\* The bytes the digest stored for id stands for.
PayloadOf(id) == kvMeta[id].md5[2]

\* Some upload is between its first metadata write and its final write on id
\* while the metadata of id says completed = false.
ChunkWriting(id) ==
    /\ ~IsCompleted(Get(kvMeta, id))
    /\ \E u \in Uploaders :
          up[u].pc \in {"L97", "L101", "L137", "L141"} /\ up[u].imageId = id

RECURSIVE Concat(_)
Concat(chunks) ==
    IF chunks = <<>> THEN <<>> ELSE Head(chunks) \o Concat(Tail(chunks))

\* Lines 202-207: new Uint8Array(size) is zero filled, and set(chunk, offset)
\* copies each chunk behind the last; set throws a RangeError when the chunk
\* does not fit in the rest of the buffer.
Fits(chunks, size) == Len(Concat(chunks)) <= size

\* FullImage without the copy of the chunks: the zero-filled buffer.
FullImageZeroed(chunks, size) == [j \in 1..size |-> 0]

FullImage(chunks, size) ==
    LET bytes == Concat(chunks)
    IN  bytes \o [j \in 1..(size - Len(bytes)) |-> 0]

Respond(r, status, body, ctype) ==
    [r EXCEPT !.pc = "idle", !.status = status, !.body = body, !.ctype = ctype,
              !.overlap = ChunkWriting(r.imageId)]

\* Lines 173-174: cache.get(imageId); a Uint8Array, empty or not, is truthy.
\* request is the url the request was made on, when the model follows it.
ServeFrom(r, id, request) ==
    LET c == Get(cache, id)
    IN  /\ rd[r].pc = "idle"
        /\ reads < MaxReads
        /\ reads' = reads + 1
        /\ rd' = [rd EXCEPT ![r] =
                [IdleRead EXCEPT !.url = request, !.imageId = id, !.cachedImage = c,
                                 !.pc = IF c # Nothing THEN "L176" ELSE "L184",
                                 !.startedCompleted = IsCompleted(Get(kvMeta, id))]]
        /\ UNCHANGED <<kvVars, cacheVars, up, nextId, uploads, failures, history>>

Serve(r, id) == ServeFrom(r, id, Nothing)

\* The object a string taken as an image id names: the id whose text it is,
\* and 0, the id of no object, for any other string.
IdOf(text) ==
    IF \E id \in 1..nextId : text = <<ToString(id)>>
    THEN CHOOSE id \in 1..nextId : text = <<ToString(id)>>
    ELSE 0

\* Lines 235-251 for a GET on a url under /image/: the last part of the path
\* up to its first dot is the image id; with an empty last part the request
\* falls through to the 404 of line 251.
handler(r, url) ==
    LET filenameWithExtension == FilenameWithExtension(Pathname(url))
    IN  IF filenameWithExtension # <<>>
        THEN ServeFrom(r, IdOf(FilenamePart0(filenameWithExtension)), Some(url))
        ELSE /\ rd[r].pc = "idle"
             /\ reads < MaxReads
             /\ reads' = reads + 1
             /\ rd' = [rd EXCEPT ![r] =
                     [IdleRead EXCEPT !.url = Some(url), !.status = 404]]
             /\ UNCHANGED <<kvVars, cacheVars, up, nextId, uploads, failures,
                            history>>

\* Lines 176-181: on a cache hit the metadata is fetched for its type, and the
\* cached bytes are returned when a metadata record exists.
L176(r) ==
    LET q == rd[r]
        m == Get(kvMeta, q.imageId)
        got == [q EXCEPT !.meta = m]
    IN  /\ q.pc = "L176"
        /\ rd' = [rd EXCEPT ![r] =
                IF m # Nothing
                THEN Respond(got, 200, q.cachedImage[1], m[1].type)
                ELSE [got EXCEPT !.pc = "L184"]]
        /\ UNCHANGED <<kvVars, cacheVars, up, nextId, uploads, reads, failures,
                       history>>

\* Lines 202-220 for the chunks read: the buffer, the cache entry with its
\* timer, the response; a RangeError ends in the catch of line 222.
Assemble(q, chunks) ==
    LET m == q.meta[1]
    IN  IF Fits(chunks, m.size)
        THEN Respond([q EXCEPT !.chunks = chunks], 200,
                     FullImage(chunks, m.size), m.type)
        ELSE Respond([q EXCEPT !.chunks = chunks], 500, <<>>, "")

\* CacheSet storing an empty array in place of the image.
CacheSetEmpty(q, chunks) ==
    IF Fits(chunks, q.meta[1].size)
    THEN /\ cache' = Put(cache, q.imageId, <<>>)
         /\ timers' = timers \cup {[id |-> q.imageId, due |-> now + CACHE_TTL]}
         /\ insertedAt' = Put(insertedAt, q.imageId, now)
    ELSE UNCHANGED <<cache, timers, insertedAt>>

CacheSet(q, chunks) ==
    IF Fits(chunks, q.meta[1].size)
    THEN /\ cache' = Put(cache, q.imageId, FullImage(chunks, q.meta[1].size))
         /\ timers' = timers \cup {[id |-> q.imageId, due |-> now + CACHE_TTL]}
         /\ insertedAt' = Put(insertedAt, q.imageId, now)
    ELSE UNCHANGED <<cache, timers, insertedAt>>

\* Lines 184-190: the metadata lookup of the repository path.
L184(r) ==
    LET q == rd[r]
        m == Get(kvMeta, q.imageId)
        got == [q EXCEPT !.meta = m]
    IN  /\ q.pc = "L184"
        /\ IF ~IsCompleted(m)
           THEN /\ rd' = [rd EXCEPT ![r] = Respond(got, 404, <<>>, "")]
                /\ UNCHANGED <<cache, timers, insertedAt>>
           ELSE IF m[1].chunks = 0
           THEN /\ rd' = [rd EXCEPT ![r] = Assemble(got, <<>>)]
                /\ CacheSet(got, <<>>)
           ELSE /\ rd' = [rd EXCEPT ![r] = [got EXCEPT !.pc = "L193", !.i = 0]]
                /\ UNCHANGED <<cache, timers, insertedAt>>
        /\ UNCHANGED <<kvVars, now, up, nextId, uploads, reads, failures, history>>

\* Lines 192-200: kv.get of chunk i; after the last chunk, lines 202-220.
L193(r) ==
    LET q == rd[r]
        c == Get(kvChunk, <<q.imageId, q.i>>)
        chunks == Append(q.chunks, c[1])
    IN  /\ q.pc = "L193"
        /\ IF c = Nothing
           THEN /\ rd' = [rd EXCEPT ![r] = Respond(q, 500, <<>>, "")]
                /\ UNCHANGED <<cache, timers, insertedAt>>
           ELSE IF q.i + 1 < q.meta[1].chunks
           THEN /\ rd' = [rd EXCEPT ![r] = [q EXCEPT !.chunks = chunks, !.i = @ + 1]]
                /\ UNCHANGED <<cache, timers, insertedAt>>
           ELSE /\ rd' = [rd EXCEPT ![r] = Assemble([q EXCEPT !.i = @ + 1], chunks)]
                /\ CacheSet(q, chunks)
        /\ UNCHANGED <<kvVars, now, up, nextId, uploads, reads, failures, history>>

\* Lines 222-225: the awaited kv.get throws.
ServeThrows(r) ==
    LET q == rd[r]
    IN  /\ q.pc \in ReadPcs
        /\ failures < MaxFailures
        /\ failures' = failures + 1
        /\ rd' = [rd EXCEPT ![r] = Respond([q EXCEPT !.threw = TRUE], 500, <<>>, "")]
        /\ UNCHANGED <<kvVars, cacheVars, up, nextId, uploads, reads, history>>

\* Lines 212-215: the callback of a setTimeout deletes the entry of its id,
\* whichever insertion put the entry there.
Expire(t) ==
    /\ t \in timers
    /\ now >= t.due
    /\ cache' = Remove(cache, t.id)
    /\ timers' = timers \ {t}
    /\ UNCHANGED <<kvVars, now, insertedAt, up, rd, nextId, uploads, reads, failures, history>>

\* Time passes; a timer that is due fires before the clock moves on.
Tick ==
    /\ now < MaxTime
    /\ \A t \in timers : t.due > now
    /\ now' = now + 1
    /\ UNCHANGED <<kvVars, cache, timers, insertedAt, up, rd, nextId, uploads, reads, failures,
                   history>>

\* ----------------------------------------------------------- specifications
\* The single-file requests of the concurrent specifications: an empty payload
\* and one of MaxLen blocks, under a name with and without an extension.
SingleFiles == {<<FilePart(n, p)>> : n \in Names, p \in {Pay(0, 1), Pay(MaxLen, 1)}}

LongFiles == {<<FilePart(n, Pay(MaxLen, 1))>> : n \in Names}

UploadStep(u) ==
    \/ L55(u) \/ L60(u) \/ L90(u) \/ L97(u) \/ L101(u)
    \/ L130(u) \/ L137(u) \/ L141(u) \/ UploadThrows(u)

ServeStep(r) == L176(r) \/ L184(r) \/ L193(r) \/ ServeThrows(r)

\* Spec: concurrent single-file uploads.
Next ==
    \/ \E u \in Uploaders, files \in SingleFiles : Begin(u, files)
    \/ \E u \in Uploaders : UploadStep(u)

Spec == Init /\ [][Next]_vars

\* SpecServe: concurrent single-file uploads and the reads of one task, the
\* clock standing still.
NextServe ==
    \/ \E u \in Uploaders, files \in LongFiles : Begin(u, files)
    \/ \E u \in Uploaders : UploadStep(u)
    \/ \E id \in 1..nextId : Serve("r1", id)
    \/ ServeStep("r1")

SpecServe == Init /\ [][NextServe]_vars

\* SpecSeq: the uploads of one task, one after the other, the reads of one
\* task, and the clock with the cache timers.
SeqFiles == {<<FilePart(NamePng, p)>> : p \in {Pay(0, 1), Pay(MaxLen, 1)}}

NextSeq ==
    \/ \E files \in SeqFiles : Begin("u1", files)
    \/ UploadStep("u1")
    \/ \E id \in 1..nextId : Serve("r1", id)
    \/ ServeStep("r1")
    \/ \E t \in timers : Expire(t)
    \/ Tick

SpecSeq == Init /\ [][NextSeq]_vars

\* SpecCache: the uploads of one file by one task, the reads of two concurrent
\* tasks, and the clock with the cache timers.
NextCache ==
    \/ Begin("u1", <<FilePart(NamePng, Pay(MaxLen, 1))>>)
    \/ UploadStep("u1")
    \/ \E r \in Readers, id \in 1..nextId : Serve(r, id)
    \/ \E r \in Readers : ServeStep(r)
    \/ \E t \in timers : Expire(t)
    \/ Tick

SpecCache == Init /\ [][NextCache]_vars

\* SpecBatch: the multipart requests of one task, each of up to MaxBatch parts,
\* a part being a string or a file.
Parts == {StringPart} \cup {FilePart(NameBare, p) : p \in {Pay(0, 1), Pay(MaxLen, 1)}}

Batches == UNION {[1..n -> Parts] : n \in 0..MaxBatch}

NextBatch ==
    \/ \E files \in Batches : Begin("u1", files)
    \/ UploadStep("u1")

SpecBatch == Init /\ [][NextBatch]_vars

\* SpecRound: the uploads of one task, of payloads of every length up to
\* MaxLen, and the reads of one task, no KV operation throwing, the clock
\* standing still.
RoundFiles == {<<FilePart(NamePng, p)>> : p \in Payloads}

NextRound ==
    \/ \E files \in RoundFiles : Begin("u1", files)
    \/ L55("u1") \/ L60("u1") \/ L130("u1") \/ L137("u1") \/ L141("u1")
    \/ \E id \in 1..nextId : Serve("r1", id)
    \/ L176("r1") \/ L184("r1") \/ L193("r1")

SpecRound == Init /\ [][NextRound]_vars

\* SpecUrl: the uploads of one task, under names with and without a slash in
\* the extension, and the GET requests of one task on the urls of the files
\* reported uploaded or overwritten, the clock standing still.
UrlFiles ==
    {<<FilePart(n, p)>> : n \in Names \cup {NameSlash, NameSlashEnd},
                          p \in {Pay(0, 1), Pay(MaxLen, 1)}}

NextUrl ==
    \/ \E files \in UrlFiles : Begin("u1", files)
    \/ UploadStep("u1")
    \/ \E j \in 1..Len(up["u1"].results) :
          /\ up["u1"].results[j].status \in {"uploaded", "overwritten"}
          /\ handler("r1", up["u1"].results[j].url)
    \/ ServeStep("r1")

SpecUrl == Init /\ [][NextUrl]_vars

\* SpecStore: reads on a store found as it is when the process starts
\* (Deno.openKv opens a database that outlives the process): one object whose
\* metadata says completed, each of its chunk records missing, cut short,
\* whole, or one block too long; the reads of two tasks and the cache timers.
StoredPayload(n) == Pay(n, 1)

\* What the store can hold for chunk i of the payload: nothing, or a record.
StoredChunkChoices(bytes, i) ==
    {Nothing}
    \cup {Some(SubSeq(ChunkOf(bytes, i), 1, k)) : k \in 0..Len(ChunkOf(bytes, i))}
    \cup {Some(ChunkOf(bytes, i) \o <<0>>)}

StoredChunks(bytes) ==
    {f \in [0..(ChunkCount(Len(bytes)) - 1) ->
              UNION {StoredChunkChoices(bytes, i) : i \in 0..(ChunkCount(Len(bytes)) - 1)}] :
        \A i \in DOMAIN f : f[i] \in StoredChunkChoices(bytes, i)}

InitStore ==
    \E n \in 0..MaxLen :
        \E f \in StoredChunks(StoredPayload(n)) :
            /\ md5_to_id = (calculateMd5(StoredPayload(n)) :> 1)
            /\ kvMeta = (1 :> ImageMeta(FilePart(NamePng, StoredPayload(n)), TRUE))
            /\ kvChunk = [key \in {<<1, i>> : i \in {j \in DOMAIN f : f[j] # Nothing}}
                            |-> f[key[2]][1]]
            /\ cache = <<>>
            /\ timers = {}
            /\ now = 0
            /\ up = [u \in Uploaders |-> IdleUpload]
            /\ rd = [r \in Readers |-> IdleRead]
            /\ nextId = 2
            /\ uploads = 0
            /\ reads = 0
            /\ failures = 0
            /\ finished = {}
            /\ aborted = {}
            /\ insertedAt = <<>>
            /\ lastFinal = <<>>

NextStore ==
    \/ \E r \in Readers : Serve(r, 1)
    \/ \E r \in Readers : ServeStep(r)
    \/ \E t \in timers : Expire(t)
    \/ Tick

SpecStore == InitStore /\ [][NextStore]_vars

\* SpecRace: the concurrent uploads of one payload of MaxLen blocks under two
\* names, and the reads of one task through the cache, no KV operation
\* throwing, the clock standing still.
UploadRuns(u) ==
    \/ L55(u) \/ L60(u) \/ L90(u) \/ L97(u) \/ L101(u)
    \/ L130(u) \/ L137(u) \/ L141(u)

NextRace ==
    \/ \E u \in Uploaders, files \in LongFiles : Begin(u, files)
    \/ \E u \in Uploaders : UploadRuns(u)
    \/ \E id \in 1..nextId : Serve("r1", id)
    \/ L176("r1") \/ L184("r1") \/ L193("r1")

SpecRace == Init /\ [][NextRace]_vars

\* ------------------------------------------------------------------ claims
\* Every entry of every response under way or sent.
Entries == UNION {{up[u].results[j] : j \in 1..Len(up[u].results)} : u \in Uploaders}

Succeeded(e) == e.status \in {"cached", "uploaded", "overwritten"}

\* A read request that has been answered.
Answered(r) == rd[r].pc = "idle" /\ rd[r].status # 0

\* The metadata of id says completed, with the size of bytes, and the chunk
\* records 0..chunks-1 of id exist, hold at most KV_CHUNK_SIZE blocks each and
\* are bytes when put end to end.
StoredExactly(id, bytes) ==
    /\ id \in DOMAIN kvMeta
    /\ kvMeta[id].completed
    /\ kvMeta[id].size = Len(bytes)
    /\ \A i \in 0..(kvMeta[id].chunks - 1) :
          /\ <<id, i>> \in DOMAIN kvChunk
          /\ Len(kvChunk[<<id, i>>]) <= KV_CHUNK_SIZE
    /\ Concat([j \in 1..kvMeta[id].chunks |-> kvChunk[<<id, j - 1>>]]) = bytes

\* C1 (SpecServe): a read answered 200 returns exactly the payload uploaded
\* under the digest of its id, and no read is answered 200 while an upload is
\* in its chunk-writing phase on that id with the metadata saying
\* completed = false.
C1_PartialWriteInvisible ==
    \A r \in Readers :
        Answered(r) /\ rd[r].status = 200 =>
            /\ rd[r].body = PayloadOf(rd[r].imageId)
            /\ ~rd[r].overlap

\* The part of C1 the code keeps: the bytes of a 200 answer are the payload.
ReadsReturnFullBytes ==
    \A r \in Readers :
        Answered(r) /\ rd[r].status = 200 => rd[r].body = PayloadOf(rd[r].imageId)

\* C2 (Spec): one metadata record per digest, and all the uploads of a digest
\* report the same id.
C2_OneCanonicalId ==
    /\ \A id1, id2 \in DOMAIN kvMeta :
          kvMeta[id1].md5 = kvMeta[id2].md5 => id1 = id2
    /\ \A e1, e2 \in Entries :
          Succeeded(e1) /\ Succeeded(e2) /\ e1.md5 = e2.md5 => e1.url.id = e2.url.id

\* C3 (Spec): once the metadata of id says completed, no step changes it or a
\* chunk record of id.
C3_CompletedImmutable ==
    [][\A id \in DOMAIN kvMeta :
          kvMeta[id].completed =>
              /\ kvMeta'[id] = kvMeta[id]
              /\ \A key \in DOMAIN kvChunk :
                    key[1] = id => kvChunk'[key] = kvChunk[key]]_vars

\* C4 (Spec): a file whose digest had already been reported uploaded or
\* overwritten when its lookup ran is reported cached, with that id.
C4_DedupIdempotence ==
    \A e \in Entries :
        Succeeded(e) /\ e.prior # {} =>
            e.status = "cached" /\ e.prior = {e.url.id}

\* C5 (Spec): the status of a file processed without error is the one the
\* lookups of lines 55 and 60 decide, cached and overwritten reuse the id
\* the md5 mapping held, and an id drawn for a new image is the id of no
\* object and of no other upload before its commit.
C5_DedupPolicy ==
    /\ \A e \in Entries :
          Succeeded(e) =>
              /\ e.status = "cached" <=>
                    (e.seenIndex # 0 /\ e.seenMeta = "completed")
              /\ e.status = "overwritten" <=>
                    (e.seenIndex # 0 /\ e.seenMeta \in {"absent", "incomplete"})
              /\ e.status = "uploaded" <=> (e.seenIndex = 0)
              /\ e.status \in {"cached", "overwritten"} => e.url.id = e.seenIndex
    /\ \A u \in Uploaders :
          up[u].pc = "L130" =>
              /\ up[u].imageId \notin DOMAIN kvMeta
              /\ \A d \in DOMAIN md5_to_id : md5_to_id[d] # up[u].imageId
              /\ \A v \in Uploaders \ {u} : up[v].imageId # up[u].imageId

\* One upload reported overwritten on an incomplete object while another
\* reports cached.
C5_Witness ==
    /\ \E e \in Entries :
          e.status = "overwritten" /\ e.seenMeta = "incomplete" /\ e.url.id = e.seenIndex
    /\ \E e \in Entries : e.status = "cached" /\ e.seenMeta = "completed"

\* C7 (Spec): no upload that ends in an error has overwritten the metadata
\* of a completed object and left it incomplete.
C7_FailureKeepsCompleted ==
    \A e \in Entries : e.status = "error" => ~e.damaged

EntriesFollowParts(u) ==
    LET r == up[u]
        Sent == r.pc = "idle" /\ r.status # 0
    IN  /\ Len(r.results) <= Len(r.files)
        /\ \A j \in 1..Len(r.results) :
              IF r.files[j].kind = "string"
              THEN r.results[j].name = <<"unknown">> /\ r.results[j].status = "error"
              ELSE r.results[j].name = r.files[j].name
        /\ Cardinality({j \in 1..Len(r.results) :
                           r.files[j].kind = "file" /\ r.results[j].status = "error"})
              <= failures
        /\ r.pc \in UploadPcs => Len(r.results) = r.k - 1
        /\ Sent => /\ Len(r.results) = Len(r.files)
                   /\ r.status = IF r.files = <<>> THEN 400
                                 ELSE IF \E j \in 1..Len(r.results) :
                                            r.results[j].status = "error"
                                 THEN 500 ELSE 200

\* C8 as stated (SpecBatch): the entries follow the parts, and a file that
\* succeeds right after a part in error has the outcome it would have on the
\* store as it was before that part.
C8_BatchIsolation ==
    \A u \in Uploaders :
        /\ EntriesFollowParts(u)
        /\ \A j \in 2..Len(up[u].results) :
              LET e == up[u].results[j]
              IN  up[u].results[j - 1].status = "error" /\ Succeeded(e) =>
                      /\ e.status = e.without
                      /\ e.status # "uploaded" => e.url.id = e.withoutId

\* C8 as amended (SpecBatch): the same, except that a file with the bytes of
\* the file in error before it, which threw after its commit, is reported
\* overwritten on the id of that file where it would have been uploaded.
C8_BatchIsolationAmended ==
    \A u \in Uploaders :
        /\ EntriesFollowParts(u)
        /\ \A j \in 2..Len(up[u].results) :
              LET e == up[u].results[j]
                  prev == up[u].results[j - 1]
              IN  prev.status = "error" /\ Succeeded(e) =>
                      \/ /\ e.status = e.without
                         /\ e.status # "uploaded" => e.url.id = e.withoutId
                      \/ /\ up[u].files[j - 1].kind = "file"
                         /\ e.md5 = prev.md5
                         /\ e.without = "uploaded"
                         /\ e.status = "overwritten"
                         /\ [md5 |-> e.md5, id |-> e.url.id] \in aborted

\* A request of three parts answered 500: the second in error, the first and
\* the third not.
C8_Witness ==
    \E u \in Uploaders :
        /\ up[u].pc = "idle"
        /\ up[u].status = 500
        /\ Len(up[u].results) = 3
        /\ Succeeded(up[u].results[1])
        /\ up[u].results[2].status = "error"
        /\ up[u].files[2].kind = "file"
        /\ Succeeded(up[u].results[3])
        /\ up[u].results[3].without # "n/a"

\* C9 (SpecServe): a read whose last metadata lookup found no record, or one
\* with completed = false, is answered 404.
C9_NotFoundUnlessCompleted ==
    \A r \in Readers :
        Answered(r) /\ ~rd[r].threw /\ ~IsCompleted(rd[r].meta) => rd[r].status = 404

\* C10 (SpecCache): an entry of the cache is removed no earlier than CACHE_TTL
\* after its insertion, and is not there after that time.
C10_CacheTTL ==
    /\ [][\A id \in DOMAIN cache :
             id \notin DOMAIN cache' => now >= insertedAt[id] + CACHE_TTL]_vars
    /\ [](\A id \in DOMAIN cache : now <= insertedAt[id] + CACHE_TTL)

\* C11 (SpecRound): the chunks an upload reported uploaded or overwritten has
\* stored are the payload when put end to end; an empty payload has
\* chunks = 0 and no chunk record; and a read begun on a completed object is
\* answered 200 with exactly the payload, 0 bytes for the empty one, unless
\* its own KV lookup throws.
C11_ChunkingRoundTrip ==
    /\ \A e \in Entries :
          e.status \in {"uploaded", "overwritten"} => StoredExactly(e.url.id, e.md5[2])
    /\ \A id \in DOMAIN kvMeta :
          kvMeta[id].size = 0 =>
              /\ kvMeta[id].chunks = 0
              /\ \A key \in DOMAIN kvChunk : key[1] # id
    /\ \A r \in Readers :
          Answered(r) /\ rd[r].startedCompleted /\ ~rd[r].threw =>
              /\ rd[r].status = 200
              /\ rd[r].body = PayloadOf(rd[r].imageId)
              /\ Len(rd[r].body) = kvMeta[rd[r].imageId].size

\* A payload of more than one chunk, the last one short, read back from the
\* chunk records, with a completed empty object in the store.
C11_Witness ==
    /\ \E r \in Readers :
          /\ Answered(r)
          /\ rd[r].status = 200
          /\ rd[r].cachedImage = Nothing
          /\ Len(rd[r].chunks) > 1
          /\ Len(rd[r].body) % KV_CHUNK_SIZE # 0
    /\ \E id \in DOMAIN kvMeta : kvMeta[id].completed /\ kvMeta[id].size = 0

\* C16 (SpecRound): the metadata of a payload of n blocks holds
\* chunks = ceil(n / KV_CHUNK_SIZE); the chunk records of its id have indices
\* in 0..chunks-1 only, all of them once the object is completed; every chunk
\* but the last holds KV_CHUNK_SIZE blocks, and the last n mod KV_CHUNK_SIZE,
\* or KV_CHUNK_SIZE when that is 0.
C16_ChunkLayout ==
    \A id \in DOMAIN kvMeta :
        LET n == kvMeta[id].size
            c == kvMeta[id].chunks
        IN  /\ c * KV_CHUNK_SIZE >= n
            /\ n > 0 => (c - 1) * KV_CHUNK_SIZE < n
            /\ n = 0 => c = 0
            /\ \A key \in DOMAIN kvChunk :
                  key[1] = id =>
                      /\ key[2] \in 0..(c - 1)
                      /\ Len(kvChunk[key]) =
                            IF key[2] < c - 1 \/ n % KV_CHUNK_SIZE = 0
                            THEN KV_CHUNK_SIZE ELSE n % KV_CHUNK_SIZE
            /\ kvMeta[id].completed =>
                  \A i \in 0..(c - 1) : <<id, i>> \in DOMAIN kvChunk

\* Two completed objects: one of more than one chunk with a short last chunk,
\* one whose length is a positive multiple of KV_CHUNK_SIZE.
C16_Witness ==
    /\ \E id \in DOMAIN kvMeta :
          /\ kvMeta[id].completed
          /\ kvMeta[id].size > KV_CHUNK_SIZE
          /\ kvMeta[id].size % KV_CHUNK_SIZE # 0
          /\ Len(kvChunk[<<id, kvMeta[id].chunks - 1>>]) < KV_CHUNK_SIZE
    /\ \E id \in DOMAIN kvMeta :
          /\ kvMeta[id].completed
          /\ kvMeta[id].size > 0
          /\ kvMeta[id].size % KV_CHUNK_SIZE = 0

\* C12 (SpecUrl): a GET on the url of a file reported uploaded or overwritten
\* is routed to the id the upload wrote and, unless its own KV lookup throws,
\* is answered 200 with the uploaded bytes and the MIME type of the file.
C12_UrlRoundTrip ==
    \A r \in Readers :
        rd[r].url # Nothing =>
            LET id == rd[r].url[1].id
            IN  /\ rd[r].pc # "idle" => rd[r].imageId = id
                /\ Answered(r) /\ ~rd[r].threw =>
                      /\ rd[r].imageId = id
                      /\ rd[r].status = 200
                      /\ rd[r].body = PayloadOf(id)
                      /\ rd[r].ctype = lastFinal[id].type

\* The part of C12 the code keeps: a GET on a url whose suffix holds no slash.
UrlRoundTripNoSlash ==
    \A r \in Readers :
        rd[r].url # Nothing /\ (\A j \in 1..Len(rd[r].url[1].suffix) :
                                   rd[r].url[1].suffix[j] # "/") =>
            LET id == rd[r].url[1].id
            IN  /\ rd[r].pc # "idle" => rd[r].imageId = id
                /\ Answered(r) /\ ~rd[r].threw =>
                      /\ rd[r].imageId = id
                      /\ rd[r].status = 200
                      /\ rd[r].body = PayloadOf(id)
                      /\ rd[r].ctype = lastFinal[id].type

\* The suffix the url of a file of this name is to carry: a dot and the part
\* of the name behind its last dot when there is a dot and that part is not
\* empty, nothing otherwise.
SuffixOfName(name) ==
    LET dots == {j \in 1..Len(name) : name[j] = "."}
        last == CHOOSE j \in dots : \A k \in dots : k <= j
    IN  IF dots = {} \/ last = Len(name) THEN <<>>
        ELSE <<".">> \o SubSeq(name, last + 1, Len(name))

\* C13 (Spec): the url of every file reported cached, uploaded or overwritten
\* is the id followed by the suffix of the name of the file.
C13_UrlSuffix ==
    \A e \in Entries :
        Succeeded(e) => e.url.id # 0 /\ e.url.suffix = SuffixOfName(e.name)

\* The part of C13 the code keeps: the urls of the files reported uploaded or
\* overwritten.
UrlSuffixWhenWritten ==
    \A e \in Entries :
        e.status \in {"uploaded", "overwritten"} =>
            e.url.id # 0 /\ e.url.suffix = SuffixOfName(e.name)

\* C14 (Spec): no step changes or removes an entry of the md5 mapping.
C14_DigestIndexStable ==
    [][\A d \in DOMAIN md5_to_id :
          d \in DOMAIN md5_to_id' /\ md5_to_id'[d] = md5_to_id[d]]_vars

\* C15 (Spec): when the metadata of id says completed, the chunk records
\* 0..chunks-1 of id exist, hold at most KV_CHUNK_SIZE blocks each, and their
\* lengths add up to the size of the metadata; and an upload that stands at
\* its final write has written every chunk of its file.
C15_FlagFlipsLast ==
    /\ \A id \in DOMAIN kvMeta :
          kvMeta[id].completed =>
              /\ \A i \in 0..(kvMeta[id].chunks - 1) :
                    /\ <<id, i>> \in DOMAIN kvChunk
                    /\ Len(kvChunk[<<id, i>>]) <= KV_CHUNK_SIZE
              /\ Len(Concat([j \in 1..kvMeta[id].chunks |-> kvChunk[<<id, j - 1>>]]))
                    = kvMeta[id].size
    /\ \A u \in Uploaders :
          up[u].pc \in {"L101", "L141"} =>
              LET bytes == CurrentFile(up[u]).bytes
              IN  /\ up[u].i * KV_CHUNK_SIZE >= Len(bytes)
                  /\ \A i \in 0..(up[u].i - 1) :
                        /\ <<up[u].imageId, i>> \in DOMAIN kvChunk
                        /\ kvChunk[<<up[u].imageId, i>>] =
                              SubSeq(bytes, i * KV_CHUNK_SIZE + 1,
                                     Min((i + 1) * KV_CHUNK_SIZE, Len(bytes)))

\* An object of more than one chunk says completed while another upload is in
\* its chunk loop on it.
C15_Witness ==
    \E id \in DOMAIN kvMeta :
        /\ kvMeta[id].completed
        /\ kvMeta[id].chunks > 1
        /\ \E u \in Uploaders : up[u].pc = "L97" /\ up[u].imageId = id

\* C18 (Spec): every entry of the md5 mapping has a metadata record with that
\* digest, and every metadata record is the one its digest is mapped to.
C18_IndexMetaConsistency ==
    /\ \A d \in DOMAIN md5_to_id :
          md5_to_id[d] \in DOMAIN kvMeta /\ kvMeta[md5_to_id[d]].md5 = d
    /\ \A id \in DOMAIN kvMeta :
          kvMeta[id].md5 \in DOMAIN md5_to_id /\ md5_to_id[kvMeta[id].md5] = id

\* The part of C18 the code keeps: the md5 mapping points to a metadata record
\* of that digest, and every metadata record has its digest in the mapping.
IndexPointsToMeta ==
    /\ \A d \in DOMAIN md5_to_id :
          md5_to_id[d] \in DOMAIN kvMeta /\ kvMeta[md5_to_id[d]].md5 = d
    /\ \A id \in DOMAIN kvMeta : kvMeta[id].md5 \in DOMAIN md5_to_id

ChunksPresent(id) ==
    {i \in 0..(kvMeta[id].chunks - 1) : <<id, i>> \in DOMAIN kvChunk}

RECURSIVE StoredLength(_, _)
StoredLength(id, i) ==
    IF i < 0 THEN 0
    ELSE StoredLength(id, i - 1)
         + (IF <<id, i>> \in DOMAIN kvChunk THEN Len(kvChunk[<<id, i>>]) ELSE 0)

ChunkMissing(id) == ChunksPresent(id) # 0..(kvMeta[id].chunks - 1)

\* C17 (SpecStore): when the metadata of id says completed and a chunk record
\* of 0..chunks-1 is missing or the lengths of the stored chunks do not add
\* up to the size, every read of id is answered 500 and the cache holds no
\* entry of id.
C17_IntegrityOnRead ==
    \A id \in DOMAIN kvMeta :
        /\ kvMeta[id].completed
        /\ ChunkMissing(id) \/ StoredLength(id, kvMeta[id].chunks - 1) # kvMeta[id].size
        => /\ \A r \in Readers :
                 Answered(r) /\ rd[r].imageId = id => rd[r].status = 500
           /\ id \notin DOMAIN cache

\* The part of C17 the code keeps: a chunk record missing, or chunks longer
\* in all than the size.
IntegrityWhenMissingOrLong ==
    \A id \in DOMAIN kvMeta :
        /\ kvMeta[id].completed
        /\ ChunkMissing(id) \/ StoredLength(id, kvMeta[id].chunks - 1) > kvMeta[id].size
        => /\ \A r \in Readers :
                 Answered(r) /\ rd[r].imageId = id => rd[r].status = 500
           /\ id \notin DOMAIN cache

\* The chunk records 0..chunks-1 of id put end to end.
StoredBytes(id) == Concat([j \in 1..kvMeta[id].chunks |-> kvChunk[<<id, j - 1>>]])

\* C20 (SpecRace): an entry enters the cache, or changes, only in the step of
\* a read of its id that saw completed = true, read every chunk and answers
\* 200 with those bytes; the bytes of an entry are the chunk records stored
\* for its id put end to end; and a read answered from the cache returns
\* those bytes with the type of the metadata record it fetched itself.
C20_CacheCoherence ==
    /\ [][\A id \in DOMAIN cache' :
             (id \notin DOMAIN cache \/ cache'[id] # cache[id]) =>
                 \E r \in Readers :
                     /\ rd[r].pc \in {"L184", "L193"}
                     /\ rd[r].imageId = id
                     /\ rd'[r].pc = "idle"
                     /\ rd'[r].status = 200
                     /\ IsCompleted(rd'[r].meta)
                     /\ Len(rd'[r].chunks) = rd'[r].meta[1].chunks
                     /\ rd'[r].body = cache'[id]]_vars
    /\ [](\A id \in DOMAIN cache :
             /\ id \in DOMAIN kvMeta
             /\ ~ChunkMissing(id)
             /\ cache[id] = StoredBytes(id))
    /\ [](\A r \in Readers :
             Answered(r) /\ rd[r].cachedImage # Nothing /\ ~rd[r].threw =>
                 /\ rd[r].status = 200
                 /\ rd[r].body = StoredBytes(rd[r].imageId)
                 /\ rd[r].meta # Nothing
                 /\ rd[r].ctype = rd[r].meta[1].type)

\* A read answered from the cache while an upload rewrites the chunks of the
\* object, whose metadata says completed = false.
C20_Witness ==
    \E r \in Readers :
        /\ Answered(r)
        /\ rd[r].cachedImage # Nothing
        /\ rd[r].status = 200
        /\ Len(rd[r].body) > KV_CHUNK_SIZE
        /\ rd[r].imageId \in DOMAIN cache
        /\ ~kvMeta[rd[r].imageId].completed
        /\ \E u \in Uploaders : up[u].pc = "L97" /\ up[u].imageId = rd[r].imageId

=============================================================================
